---- MODULE Spec2Model ----
(***************************************************************************)
(* Model of battlefield.py: the Battlefield placement engine.              *)
(*                                                                         *)
(* A position is a pair <<row, col>>, a piece (footprint) is a set of      *)
(* positions, as the frozensets of the source.  The state is the fields    *)
(* of one Battlefield object plus the record of what its calls returned.   *)
(***************************************************************************)
EXTENDS Integers, FiniteSets, Sequences, TLC

\* The boards explored: at most MaxSide rows, at most MaxSide columns and at
\* most MaxCells cells.
MaxSide == 4
MaxCells == 16

\* The dimension arguments tried: the constructor takes any integer, so the
\* non-positive ones 0 and -1 are among them.
DimArgs == -1 .. MaxSide

VARIABLES
    phase,      \* "new" before __init__ has run, "ready" after it returned
    n,          \* self.n
    m,          \* self.m
    board,      \* self.board, as a function position -> symbol or None
    free_battleship_pieces,      \* self.free_battleship_pieces
    buffered_battleship_pieces,  \* self.buffered_battleship_pieces
    placed,     \* the placements made so far: the pieces returned, with their type
    placements, \* how many place_battleship calls returned a piece
    last_type,  \* the argument of the last place_battleship call
    outcome,    \* how the last call ended
    result      \* the piece the last call returned (the empty set otherwise)

vars == <<phase, n, m, board, free_battleship_pieces, buffered_battleship_pieces,
          placed, placements, last_type, outcome, result>>

None == "None"

\* BATTLESHIPS = {'S': (1, 1), 'D': (2, 1), 'C': (3, 1), 'A': (4, 1)}
BATTLESHIPS == [S |-> <<1, 1>>, D |-> <<2, 1>>, C |-> <<3, 1>>, A |-> <<4, 1>>]

\* The identifiers a caller passes to place_battleship: the four keys of
\* BATTLESHIPS and one that is not a key.
TypeArgs == DOMAIN BATTLESHIPS \cup {"X"}

\* range(a, b) of Python
range(a, b) == a .. (b - 1)

\* The positions of an n x m board (none when a dimension is not positive).
Positions(rows, cols) == range(0, rows) \X range(0, cols)

-----------------------------------------------------------------------------
(* Construction *)

\* Mutant: the anchors stop one short, range(self.n - x_size) and
\* range(self.m - y_size) without the + 1.
get_battleship_type_pieces_short(self_n, self_m, dimension) ==
    LET x_size == dimension[1]
        y_size == dimension[2]
    IN  { { <<x_pos, y_pos>> : x_pos \in range(row, row + x_size),
                               y_pos \in range(col, col + y_size) } :
            row \in range(0, self_n - x_size),
            col \in range(0, self_m - y_size) }

\* Battlefield.__get_battleship_type_pieces
get_battleship_type_pieces(self_n, self_m, dimension) ==
    LET x_size == dimension[1]
        y_size == dimension[2]
    IN  { { <<x_pos, y_pos>> : x_pos \in range(row, row + x_size),
                               y_pos \in range(col, col + y_size) } :
            row \in range(0, self_n - x_size + 1),
            col \in range(0, self_m - y_size + 1) }

\* Mutant: the switched orientation of lines 46-48 is never added.
generate_battleship_locations_one_orientation(self_n, self_m) ==
    [battleship_type \in DOMAIN BATTLESHIPS |->
        get_battleship_type_pieces(self_n, self_m, BATTLESHIPS[battleship_type])]

\* Battlefield.__generate_battleship_locations
generate_battleship_locations(self_n, self_m) ==
    [battleship_type \in DOMAIN BATTLESHIPS |->
        LET dimension == BATTLESHIPS[battleship_type]
            pieces == get_battleship_type_pieces(self_n, self_m, dimension)
        IN  IF dimension[1] # dimension[2]
            THEN pieces \cup get_battleship_type_pieces(
                                 self_n, self_m, <<dimension[2], dimension[1]>>)
            ELSE pieces]

\* The positions of a piece moved by the given deltas, clipped to the board
\* (the comprehension of lines 72-73, united over the piece).
Shifted(self_n, self_m, piece, deltas) ==
    { q \in { <<pos[1] + d[1], pos[2] + d[2]>> : pos \in piece, d \in deltas } :
          0 <= q[1] /\ q[1] < self_n /\ 0 <= q[2] /\ q[2] < self_m }

\* Mutant: the buffer has no diagonal neighbours.
generate_buffered_piece_no_diagonal(self_n, self_m, piece) ==
    Shifted(self_n, self_m, piece,
            { d \in {-1, 0, 1} \X {-1, 0, 1} : d[1] = 0 \/ d[2] = 0 })

\* Mutant: the buffer is two positions wide.
generate_buffered_piece_radius2(self_n, self_m, piece) ==
    Shifted(self_n, self_m, piece, (-2 .. 2) \X (-2 .. 2))

\* Mutant: the buffer of a position leaves the position itself out.
generate_buffered_piece_ring(self_n, self_m, piece) ==
    Shifted(self_n, self_m, piece, ({-1, 0, 1} \X {-1, 0, 1}) \ {<<0, 0>>})

\* Mutant: a neighbour beyond the edge wraps around to the other side of the
\* board instead of being dropped.
generate_buffered_piece_wrap(self_n, self_m, piece) ==
    { <<(pos[1] + d[1]) % self_n, (pos[2] + d[2]) % self_m>> :
          pos \in piece, d \in {-1, 0, 1} \X {-1, 0, 1} }

\* Battlefield.__generate_buffered_piece
generate_buffered_piece(self_n, self_m, piece) ==
    UNION { { <<pos[1] + x_delta, pos[2] + y_delta>> :
                  x_delta \in { xd \in {-1, 0, 1} :
                                   0 <= pos[1] + xd /\ pos[1] + xd < self_n },
                  y_delta \in { yd \in {-1, 0, 1} :
                                   0 <= pos[2] + yd /\ pos[2] + yd < self_m } } :
            pos \in piece }

\* Mutant: only the pieces of one type get an entry.
generate_battleship_with_buffer_one_type(self_n, self_m, free_pieces) ==
    [piece \in free_pieces["S"] |-> generate_buffered_piece(self_n, self_m, piece)]

\* Battlefield.__generate_battleship_with_buffer
generate_battleship_with_buffer(self_n, self_m, free_pieces) ==
    [piece \in UNION { free_pieces[battleship_type] :
                           battleship_type \in DOMAIN free_pieces } |->
        generate_buffered_piece(self_n, self_m, piece)]

\* Battlefield.__init__: no argument is rejected; a dimension that is not
\* positive gives a board without cells and empty pools.
__init__(rows, cols) ==
    /\ phase = "new"
    /\ phase' = "ready"
    /\ n' = rows
    /\ m' = cols
    /\ board' = [pos \in Positions(rows, cols) |-> None]
    /\ free_battleship_pieces' = generate_battleship_locations(rows, cols)
    /\ buffered_battleship_pieces' =
           generate_battleship_with_buffer(rows, cols,
                                           generate_battleship_locations(rows, cols))
    /\ UNCHANGED <<placed, placements, last_type, outcome, result>>

-----------------------------------------------------------------------------
(* Placement *)

\* Mutant: row and column are swapped when the board is indexed.
place_in_board_transposed(brd, piece, piece_symbol) ==
    [pos \in DOMAIN brd |->
        IF <<pos[2], pos[1]>> \in piece THEN piece_symbol ELSE brd[pos]]

\* Mutant: the piece is written to a fresh board, the earlier marks are lost.
place_in_board_fresh(brd, piece, piece_symbol) ==
    [pos \in DOMAIN brd |-> IF pos \in piece THEN piece_symbol ELSE None]

\* Battlefield.__place_in_board
place_in_board(brd, piece, piece_symbol) ==
    [pos \in DOMAIN brd |-> IF pos \in piece THEN piece_symbol ELSE brd[pos]]

\* Mutant: the overlap is tested against the piece, not its buffered piece.
remove_overlapping_no_buffer(free_pieces, buffered_pieces, piece) ==
    [battleship_type \in DOMAIN BATTLESHIPS |->
        { free_piece \in free_pieces[battleship_type] : free_piece \cap piece = {} }]

\* Mutant: the placed piece itself is skipped by the scan.
remove_overlapping_keep_placed(free_pieces, buffered_pieces, piece) ==
    [battleship_type \in DOMAIN BATTLESHIPS |->
        { free_piece \in free_pieces[battleship_type] :
              free_piece = piece \/ free_piece \cap buffered_pieces[piece] = {} }]

\* Mutant: the loop over the types is left after its first round, so only
\* the pool of 'S' is pruned.
remove_overlapping_first_type_only(free_pieces, buffered_pieces, piece) ==
    [battleship_type \in DOMAIN BATTLESHIPS |->
        IF battleship_type = "S"
        THEN { free_piece \in free_pieces[battleship_type] :
                   free_piece \cap buffered_pieces[piece] = {} }
        ELSE free_pieces[battleship_type]]

\* Battlefield.__remove_overlapping_free_locations
remove_overlapping_free_locations(free_pieces, buffered_pieces, piece) ==
    LET buffered_piece == buffered_pieces[piece]
    IN  [battleship_type \in DOMAIN BATTLESHIPS |->
            LET locations_to_discard ==
                    { free_piece \in free_pieces[battleship_type] :
                          free_piece \cap buffered_piece # {} }
            IN  free_pieces[battleship_type] \ locations_to_discard]

\* Mutant: the test of lines 127-128 is missing, so random.choice is given an
\* empty tuple and raises IndexError.
place_battleship_no_empty_check(battleship_type) ==
    /\ phase = "ready"
    /\ last_type' = battleship_type
    /\ \/ /\ battleship_type \notin DOMAIN free_battleship_pieces
          /\ outcome' = "KeyError"
          /\ result' = {}
          /\ UNCHANGED <<board, free_battleship_pieces, placed, placements>>
       \/ /\ battleship_type \in DOMAIN free_battleship_pieces
          /\ free_battleship_pieces[battleship_type] = {}
          /\ outcome' = "IndexError"
          /\ result' = {}
          /\ UNCHANGED <<board, free_battleship_pieces, placed, placements>>
       \/ /\ battleship_type \in DOMAIN free_battleship_pieces
          /\ \E piece \in free_battleship_pieces[battleship_type] :
                /\ board' = place_in_board(board, piece, battleship_type)
                /\ free_battleship_pieces' =
                       remove_overlapping_free_locations(
                           free_battleship_pieces, buffered_battleship_pieces, piece)
                /\ placed' = placed \cup {[type |-> battleship_type, piece |-> piece]}
                /\ placements' = placements + 1
                /\ outcome' = "piece"
                /\ result' = piece
    /\ UNCHANGED <<phase, n, m, buffered_battleship_pieces>>

\* Mutant: the pool is fetched with .get(battleship_type, ()), so a type that
\* is no key finds an empty pool and the call returns None.
place_battleship_unknown_type_none(battleship_type) ==
    /\ phase = "ready"
    /\ last_type' = battleship_type
    /\ \/ /\ \/ battleship_type \notin DOMAIN free_battleship_pieces
             \/ free_battleship_pieces[battleship_type] = {}
          /\ outcome' = "None"
          /\ result' = {}
          /\ UNCHANGED <<board, free_battleship_pieces, placed, placements>>
       \/ /\ battleship_type \in DOMAIN free_battleship_pieces
          /\ \E piece \in free_battleship_pieces[battleship_type] :
                /\ board' = place_in_board(board, piece, battleship_type)
                /\ free_battleship_pieces' =
                       remove_overlapping_free_locations(
                           free_battleship_pieces, buffered_battleship_pieces, piece)
                /\ placed' = placed \cup {[type |-> battleship_type, piece |-> piece]}
                /\ placements' = placements + 1
                /\ outcome' = "piece"
                /\ result' = piece
    /\ UNCHANGED <<phase, n, m, buffered_battleship_pieces>>

\* Mutant: no random choice, the call always takes the same piece of the pool.
place_battleship_fixed_choice(battleship_type) ==
    /\ phase = "ready"
    /\ last_type' = battleship_type
    /\ \/ /\ battleship_type \notin DOMAIN free_battleship_pieces
          /\ outcome' = "KeyError"
          /\ result' = {}
          /\ UNCHANGED <<board, free_battleship_pieces, placed, placements>>
       \/ /\ battleship_type \in DOMAIN free_battleship_pieces
          /\ free_battleship_pieces[battleship_type] = {}
          /\ outcome' = "None"
          /\ result' = {}
          /\ UNCHANGED <<board, free_battleship_pieces, placed, placements>>
       \/ /\ battleship_type \in DOMAIN free_battleship_pieces
          /\ free_battleship_pieces[battleship_type] # {}
          /\ LET piece == CHOOSE p \in free_battleship_pieces[battleship_type] : TRUE
             IN /\ board' = place_in_board(board, piece, battleship_type)
                /\ free_battleship_pieces' =
                       remove_overlapping_free_locations(
                           free_battleship_pieces, buffered_battleship_pieces, piece)
                /\ placed' = placed \cup {[type |-> battleship_type, piece |-> piece]}
                /\ placements' = placements + 1
                /\ outcome' = "piece"
                /\ result' = piece
    /\ UNCHANGED <<phase, n, m, buffered_battleship_pieces>>

\* Battlefield.place_battleship: the subscript of line 127 raises KeyError for
\* a type that is no key; an empty pool returns None; otherwise any piece of
\* the pool may be the one random.choice picks.  The piece is written to the
\* board (line 130) before line 112 looks its buffer up, a subscript that
\* raises KeyError for a piece the buffer map has no entry for.
place_battleship(battleship_type) ==
    /\ phase = "ready"
    /\ last_type' = battleship_type
    /\ \/ /\ battleship_type \notin DOMAIN free_battleship_pieces
          /\ outcome' = "KeyError"
          /\ result' = {}
          /\ UNCHANGED <<board, free_battleship_pieces, placed, placements>>
       \/ /\ battleship_type \in DOMAIN free_battleship_pieces
          /\ free_battleship_pieces[battleship_type] = {}
          /\ outcome' = "None"
          /\ result' = {}
          /\ UNCHANGED <<board, free_battleship_pieces, placed, placements>>
       \/ /\ battleship_type \in DOMAIN free_battleship_pieces
          /\ \E piece \in free_battleship_pieces[battleship_type] :
                /\ board' = place_in_board(board, piece, battleship_type)
                /\ IF piece \in DOMAIN buffered_battleship_pieces
                   THEN /\ free_battleship_pieces' =
                               remove_overlapping_free_locations(
                                   free_battleship_pieces,
                                   buffered_battleship_pieces, piece)
                        /\ placed' =
                               placed \cup {[type |-> battleship_type, piece |-> piece]}
                        /\ placements' = placements + 1
                        /\ outcome' = "piece"
                        /\ result' = piece
                   ELSE /\ outcome' = "KeyError"
                        /\ result' = {}
                        /\ UNCHANGED <<free_battleship_pieces, placed, placements>>
    /\ UNCHANGED <<phase, n, m, buffered_battleship_pieces>>

-----------------------------------------------------------------------------
(* Specification *)

Init ==
    /\ phase = "new"
    /\ n = 0
    /\ m = 0
    /\ board = <<>>
    /\ free_battleship_pieces = <<>>
    /\ buffered_battleship_pieces = <<>>
    /\ placed = {}
    /\ placements = 0
    /\ last_type = None
    /\ outcome = "none"
    /\ result = {}

Next ==
    \/ \E rows \in DimArgs, cols \in DimArgs :
          rows * cols <= MaxCells /\ __init__(rows, cols)
    \/ \E battleship_type \in TypeArgs : place_battleship(battleship_type)

Spec == Init /\ [][Next]_vars

-----------------------------------------------------------------------------
(* Notions the properties are stated with *)

Abs(x) == IF x < 0 THEN -x ELSE x

\* Chebyshev distance of two positions
Chebyshev(p, q) ==
    IF Abs(p[1] - q[1]) >= Abs(p[2] - q[2]) THEN Abs(p[1] - q[1]) ELSE Abs(p[2] - q[2])

\* Two pieces neither overlap nor touch, not even diagonally.
Apart(A, B) == \A a \in A : \A b \in B : Chebyshev(a, b) >= 2

Types == DOMAIN BATTLESHIPS

Length(battleship_type) == BATTLESHIPS[battleship_type][1]

\* A step of a place_battleship call that returned a piece.
Succeeds == phase = "ready" /\ outcome' = "piece"

-----------------------------------------------------------------------------
(* Properties *)

\* C1: after any sequence of placements, every cell of a committed piece is
\* at Chebyshev distance >= 2 from every cell of every other committed piece.
C1_CommittedApart ==
    \A x \in placed : \A y \in placed : x # y => Apart(x.piece, y.piece)

\* Two pieces of different types are on the board.
C1_Witness ==
    \E x \in placed : \E y \in placed : x.type # y.type /\ x.piece # y.piece

\* C2: every piece still in a pool has all its cells at Chebyshev distance
\* >= 2 from every cell of every committed piece.
C2_PoolsApartFromCommitted ==
    phase = "ready" =>
        \A battleship_type \in Types :
            \A free_piece \in free_battleship_pieces[battleship_type] :
                \A x \in placed : Apart(free_piece, x.piece)

\* Two pieces are placed and a pool of pieces longer than one cell is not empty.
C2_Witness ==
    /\ phase = "ready"
    /\ placements >= 2
    /\ \E battleship_type \in Types :
          Length(battleship_type) > 1 /\ free_battleship_pieces[battleship_type] # {}

\* C3: each pool is exactly the set of the initially generated pieces of its
\* type that are at Chebyshev distance >= 2 from every committed piece.
C3_PoolsComplete ==
    phase = "ready" =>
        \A battleship_type \in Types :
            free_battleship_pieces[battleship_type] =
                { piece \in generate_battleship_locations(n, m)[battleship_type] :
                      \A x \in placed : Apart(piece, x.piece) }

\* After two placements a pool is neither empty nor what it was initially.
C3_Witness ==
    /\ phase = "ready"
    /\ placements >= 2
    /\ \E battleship_type \in Types :
          /\ free_battleship_pieces[battleship_type] # {}
          /\ free_battleship_pieces[battleship_type] #
                 generate_battleship_locations(n, m)[battleship_type]

\* C4: a successful place call marks every cell of the returned piece with the
\* type's symbol and changes no other cell of the board.
C4_BoardFrame ==
    [][Succeeds =>
          /\ DOMAIN board' = DOMAIN board
          /\ \A pos \in result' : pos \in DOMAIN board' /\ board'[pos] = last_type'
          /\ \A pos \in DOMAIN board \ result' : board'[pos] = board[pos]]_vars

\* A piece of more than one cell was just placed on a board that is not
\* square and already held another piece.
C4_Witness ==
    /\ outcome = "piece"
    /\ n # m
    /\ Cardinality(result) > 1
    /\ \A pos \in result : board[pos] = last_type
    /\ \E pos \in DOMAIN board \ result : board[pos] # None

\* C5: place called for a valid type whose pool is empty returns None and
\* raises nothing, and leaves the board, the pools and the buffer map as
\* they were.
C5_NoSpace ==
    [][(/\ phase = "ready"
        /\ last_type' \in Types
        /\ free_battleship_pieces[last_type'] = {})
       => /\ outcome' = "None"
          /\ result' = {}
          /\ UNCHANGED <<board, free_battleship_pieces, buffered_battleship_pieces>>]_vars

\* A call for a type whose pool the earlier placements emptied returned None.
C5_Witness ==
    /\ outcome = "None"
    /\ last_type \in Types
    /\ placements >= 1
    /\ generate_battleship_locations(n, m)[last_type] # {}
    /\ free_battleship_pieces[last_type] = {}

\* C6: no place call makes any pool larger, and a call that places a piece
\* makes the pool of its type smaller by at least 1.
C6_PoolsShrink ==
    [][phase = "ready" =>
          /\ \A battleship_type \in Types :
                Cardinality(free_battleship_pieces'[battleship_type])
                    <= Cardinality(free_battleship_pieces[battleship_type])
          /\ outcome' = "piece" =>
                Cardinality(free_battleship_pieces'[last_type'])
                    <= Cardinality(free_battleship_pieces[last_type']) - 1]_vars

\* A submarine was placed as the last piece that fits the board.
C6_Witness ==
    /\ outcome = "piece"
    /\ last_type = "S"
    /\ placements >= 2
    /\ free_battleship_pieces["S"] = {}

\* C7: constructing a Battlefield with rows <= 0 or cols <= 0 fails, so no
\* constructed engine has a dimension that is not positive.
C7_NonPositiveRejected ==
    phase = "ready" => n >= 1 /\ m >= 1

\* A set of integers is a run of L consecutive integers.
IsRun(S, L) == \E lo \in S : S = lo .. (lo + L - 1)

\* L contiguous cells in a single row or in a single column.
IsLine(F, L) ==
    /\ Cardinality(F) = L
    /\ \/ Cardinality({ p[1] : p \in F }) = 1 /\ IsRun({ p[2] : p \in F }, L)
       \/ Cardinality({ p[2] : p \in F }) = 1 /\ IsRun({ p[1] : p \in F }, L)

\* C8: the pool built at construction for a type of length L is exactly the
\* set of all sets of L contiguous cells in a single row or a single column
\* that lie inside the board.
C8_InitialPoolsExact ==
    (phase = "ready" /\ placements = 0) =>
        \A battleship_type \in Types :
            free_battleship_pieces[battleship_type] =
                { F \in SUBSET Positions(n, m) : IsLine(F, Length(battleship_type)) }

\* A fresh 3 x 4 board: cruisers lie both ways, carriers along the rows only.
C8_Witness ==
    /\ phase = "ready"
    /\ placements = 0
    /\ n = 3
    /\ m = 4
    /\ {<<0, 0>>, <<1, 0>>, <<2, 0>>} \in free_battleship_pieces["C"]
    /\ {<<2, 1>>, <<2, 2>>, <<2, 3>>} \in free_battleship_pieces["C"]
    /\ {<<1, 0>>, <<1, 1>>, <<1, 2>>, <<1, 3>>} \in free_battleship_pieces["A"]

\* C9: on an n x m board with n, m >= 1 the initial pool of a type of length L
\* is non-empty iff L <= n or L <= m, has n*(m-L+1) + m*(n-L+1) pieces when
\* L > 1 and n, m >= L, and has n*m pieces when L = 1.
C9_InitialPoolSizes ==
    (phase = "ready" /\ placements = 0 /\ n >= 1 /\ m >= 1) =>
        \A battleship_type \in Types :
            LET L == Length(battleship_type)
                pool == free_battleship_pieces[battleship_type]
            IN  /\ pool # {} <=> (L <= n \/ L <= m)
                /\ (L > 1 /\ n >= L /\ m >= L) =>
                       Cardinality(pool) = n * (m - L + 1) + m * (n - L + 1)
                /\ L = 1 => Cardinality(pool) = n * m

\* A fresh 4 x 4 board, where every type has n, m >= L, and 8 carriers fit.
C9_Witness ==
    /\ phase = "ready"
    /\ placements = 0
    /\ n = 4
    /\ m = 4
    /\ Cardinality(free_battleship_pieces["A"]) = 8

\* C10: on a 1 x 1 board a carrier call always returns None, a submarine call
\* returns the piece {(0,0)} when no submarine was placed before and None
\* when one was, so that a submarine is placed exactly once.
C10_OneByOne ==
    [][(phase = "ready" /\ n = 1 /\ m = 1) =>
          /\ last_type' = "A" => outcome' = "None"
          /\ (last_type' = "S" /\ placements = 0) =>
                 (outcome' = "piece" /\ result' = {<<0, 0>>} /\ placements' = 1)
          /\ (last_type' = "S" /\ placements >= 1) => outcome' = "None"
          /\ placements' <= 1]_vars

\* On the 1 x 1 board the submarine is placed and a further submarine call
\* returned None.
C10_Witness ==
    /\ n = 1
    /\ m = 1
    /\ placements = 1
    /\ placed = {[type |-> "S", piece |-> {<<0, 0>>}]}
    /\ last_type = "S"
    /\ outcome = "None"

\* C11: on a fresh 3 x 3 board with one submarine placed, a destroyer call
\* returns None when the submarine is on the center cell (1,1), and for every
\* other submarine cell returns a piece of 2 cells that are all at Chebyshev
\* distance >= 2 from the submarine.
C11_SubmarineThenDestroyer ==
    [][(/\ phase = "ready"
        /\ n = 3
        /\ m = 3
        /\ placements = 1
        /\ \E pos \in DOMAIN board : placed = {[type |-> "S", piece |-> {pos}]}
        /\ last_type' = "D")
       => IF placed = {[type |-> "S", piece |-> {<<1, 1>>}]}
          THEN outcome' = "None" /\ placements' = 1
          ELSE /\ outcome' = "piece"
               /\ Cardinality(result') = 2
               /\ \A x \in placed : Apart(result', x.piece)]_vars

\* The destroyer call after the center submarine returned None.
C11_WitnessCenter ==
    /\ n = 3
    /\ m = 3
    /\ placed = {[type |-> "S", piece |-> {<<1, 1>>}]}
    /\ last_type = "D"
    /\ outcome = "None"

\* C12: place called with an identifier that is none of 'S', 'D', 'C', 'A'
\* ends with an error (KeyError), which is not the no-space value None, and
\* changes neither the board nor any pool.
C12_InvalidTypeFails ==
    [][(phase = "ready" /\ last_type' \notin Types)
       => /\ outcome' = "KeyError"
          /\ outcome' # "None"
          /\ UNCHANGED <<board, free_battleship_pieces, placed, placements>>]_vars

\* A call with the identifier 'X' raised KeyError on a board that holds a
\* piece and has room for more.
C12_Witness ==
    /\ last_type = "X"
    /\ outcome = "KeyError"
    /\ placements >= 1
    /\ free_battleship_pieces["S"] # {}

\* C13: a successful place call returns a member of the pool of its type as
\* the pool stood before the call, and in every state every member of every
\* pool is a piece the next call for its type can return.
C13_ChosenFromPool ==
    /\ [][Succeeds => result' \in free_battleship_pieces[last_type']]_vars
    /\ [](phase = "ready" =>
             \A battleship_type \in Types :
                 \A piece \in free_battleship_pieces[battleship_type] :
                     ENABLED (/\ place_battleship(battleship_type)
                              /\ outcome' = "piece"
                              /\ result' = piece))

\* A piece was returned from a pool that earlier placements had shrunk and
\* that held other pieces as well.
C13_Witness ==
    /\ outcome = "piece"
    /\ placements >= 2
    /\ [type |-> last_type, piece |-> result] \in placed
    /\ free_battleship_pieces[last_type] # {}

\* C15: the buffer cached at construction for every candidate piece F is
\* exactly the set of the board's positions at Chebyshev distance <= 1 from
\* some cell of F; it contains F and no position outside the board.
C15_BufferExact ==
    (phase = "ready" /\ placements = 0) =>
        \A F \in DOMAIN buffered_battleship_pieces :
            /\ buffered_battleship_pieces[F] =
                   { q \in Positions(n, m) : \E p \in F : Chebyshev(p, q) <= 1 }
            /\ F \subseteq buffered_battleship_pieces[F]
            /\ buffered_battleship_pieces[F] \subseteq Positions(n, m)

\* A board of 3 x 4 whose buffer map holds a carrier on the upper edge, with
\* a buffer clipped to the two upper rows, and a submarine inside the board,
\* with all eight neighbours in its buffer.
C15_Witness ==
    /\ phase = "ready"
    /\ n = 3
    /\ m = 4
    /\ LET carrier == {<<0, 0>>, <<0, 1>>, <<0, 2>>, <<0, 3>>}
       IN  /\ carrier \in DOMAIN buffered_battleship_pieces
           /\ buffered_battleship_pieces[carrier] = (0 .. 1) \X (0 .. 3)
    /\ {<<1, 1>>} \in DOMAIN buffered_battleship_pieces
    /\ buffered_battleship_pieces[{<<1, 1>>}] = (0 .. 2) \X (0 .. 2)

\* C16: the buffer map is built at construction with an entry for every piece
\* of every initial pool and no place call changes it, so every piece of a
\* pool has its entry and a place call for a valid type never raises.
C16_BufferMapFixed ==
    /\ [][phase = "ready" =>
             buffered_battleship_pieces' = buffered_battleship_pieces]_vars
    /\ [](phase = "ready" =>
             /\ DOMAIN buffered_battleship_pieces =
                    UNION { generate_battleship_locations(n, m)[battleship_type] :
                                battleship_type \in Types }
             /\ \A battleship_type \in Types :
                    free_battleship_pieces[battleship_type]
                        \subseteq DOMAIN buffered_battleship_pieces
             /\ last_type \in Types => outcome \in {"None", "piece"})

\* A destroyer was placed after another piece: its buffer was looked up in a
\* map that still has the entries of the pieces pruned from the pools.
C16_Witness ==
    /\ outcome = "piece"
    /\ last_type = "D"
    /\ placements >= 2
    /\ result \in DOMAIN buffered_battleship_pieces
    /\ \E F \in DOMAIN buffered_battleship_pieces :
          \A battleship_type \in Types : F \notin free_battleship_pieces[battleship_type]

\* C17: the board is all empty after construction; a cell that carries a
\* symbol keeps that symbol in every later place call; and at every point
\* the non-empty cells are exactly the cells of the placed pieces, each with
\* the symbol of the type placed there.
C17_BoardOnlyFills ==
    /\ [][phase = "new" => \A pos \in DOMAIN board' : board'[pos] = None]_vars
    /\ [][phase = "ready" =>
             /\ DOMAIN board' = DOMAIN board
             /\ \A pos \in DOMAIN board :
                    board[pos] # None => board'[pos] = board[pos]]_vars
    /\ [](phase = "ready" =>
             /\ DOMAIN board = Positions(n, m)
             /\ \A pos \in DOMAIN board :
                    board[pos] # None <=> \E x \in placed : pos \in x.piece
             /\ \A x \in placed : \A pos \in x.piece : board[pos] = x.type)

\* Three pieces of different types are on the board and a call that found
\* no space came after them.
C17_Witness ==
    /\ outcome = "None"
    /\ placements = 3
    /\ Cardinality({ x.type : x \in placed }) = 3
    /\ Cardinality({ board[pos] : pos \in DOMAIN board }) = 4

\* C18: a piece is committed at most once.  A successful place call returns a
\* piece that no earlier call returned and that lies inside its own buffer,
\* and after the call the piece is in no pool; no placed piece is ever in a
\* pool, so each successful call adds a new placement.
C18_CommittedOnce ==
    /\ [][Succeeds =>
             /\ result' \notin { x.piece : x \in placed }
             /\ result' \subseteq buffered_battleship_pieces[result']
             /\ \A battleship_type \in Types :
                    result' \notin free_battleship_pieces'[battleship_type]]_vars
    /\ [](phase = "ready" =>
             /\ Cardinality(placed) = placements
             /\ \A x \in placed : \A battleship_type \in Types :
                    x.piece \notin free_battleship_pieces[battleship_type])

\* A second submarine was placed while other submarines are still free: the
\* pool it came from lost it.
C18_Witness ==
    /\ outcome = "piece"
    /\ last_type = "S"
    /\ placements = 2
    /\ \A x \in placed : x.type = "S"
    /\ free_battleship_pieces["S"] # {}
    /\ result \notin free_battleship_pieces["S"]

\* C19: the pools are downward-closed.  If a piece of length L is in the pool
\* of its type, every contiguous part of it of a smaller length L' is in the
\* pool of the type of length L'; so a non-empty carrier pool implies a
\* non-empty cruiser pool, that a non-empty destroyer pool, that a non-empty
\* submarine pool, and an empty submarine pool means all pools are empty.
C19_DownwardClosed ==
    phase = "ready" =>
        /\ \A battleship_type \in Types :
               \A shorter \in { t \in Types : Length(t) < Length(battleship_type) } :
                   \A F \in free_battleship_pieces[battleship_type] :
                       \A G \in SUBSET F :
                           IsLine(G, Length(shorter)) =>
                               G \in free_battleship_pieces[shorter]
        /\ free_battleship_pieces["A"] # {} => free_battleship_pieces["C"] # {}
        /\ free_battleship_pieces["C"] # {} => free_battleship_pieces["D"] # {}
        /\ free_battleship_pieces["D"] # {} => free_battleship_pieces["S"] # {}
        /\ free_battleship_pieces["S"] = {} =>
               \A battleship_type \in Types :
                   free_battleship_pieces[battleship_type] = {}

\* After two placements a carrier is still free, and with it its parts.
C19_Witness ==
    /\ phase = "ready"
    /\ placements >= 2
    /\ free_battleship_pieces["A"] # {}
    /\ Cardinality(free_battleship_pieces["S"]) >= 4

\* ceil(n/2) * ceil(m/2), and 0 for a board without cells
MaxPlacements(rows, cols) ==
    IF rows >= 1 /\ cols >= 1 THEN ((rows + 1) \div 2) * ((cols + 1) \div 2) ELSE 0

\* C20: at most ceil(n/2) * ceil(m/2) place calls succeed; an empty pool stays
\* empty and every call for its type returns None; and in every run where
\* place keeps being called for a type (a call for it is never left waiting
\* for ever while it would change something), the pool of that type
\* eventually is empty.
C20_Exhaustion ==
    /\ [](phase = "ready" => placements <= MaxPlacements(n, m))
    /\ [][phase = "ready" =>
             \A battleship_type \in Types :
                 free_battleship_pieces[battleship_type] = {} =>
                     /\ free_battleship_pieces'[battleship_type] = {}
                     /\ last_type' = battleship_type => outcome' = "None"]_vars
    /\ \A battleship_type \in Types :
           WF_vars(place_battleship(battleship_type)) =>
               ((phase = "ready") ~>
                    (phase = "ready" /\ free_battleship_pieces[battleship_type] = {}))

\* A 3 x 4 board holds ceil(3/2) * ceil(4/2) = 4 pieces, every pool is empty
\* and a further call returned None.
C20_Witness ==
    /\ n = 3
    /\ m = 4
    /\ placements = 4
    /\ \A battleship_type \in Types : free_battleship_pieces[battleship_type] = {}
    /\ outcome = "None"

====
